---------------------------- MODULE Spec2Model ----------------------------
(***************************************************************************)
(* The OpalForge front-end page script as a state machine.                 *)
(*                                                                         *)
(* The repository holds three revisions of the same page script:           *)
(*   "legacy"  src/unnamed/part_000      (download-only certificate box)   *)
(*   "early"   src/app.js lines 1-253    (single GET mint, HEAD verify)    *)
(*   "later"   src/app.js lines 255-602  (POST + PDF mint, GET verify, QR) *)
(* A page runs exactly one of them; the variable revision says which.      *)
(*                                                                         *)
(* Every browser task (an event handler, or the continuation of an await   *)
(* on network or file I/O) is one atomic action: the event loop is single  *)
(* threaded and microtasks run before the next task.                       *)
(*                                                                         *)
(* Numbers.  Model outputs are fixed point with four decimals (10000 is    *)
(* 1.0).  A confidence is a percentage with two decimals (8500 is 85%),    *)
(* so that output * 100 (percent) keeps the same integer.  NaN is kept as  *)
(* a value of its own with JavaScript's rules for arithmetic and           *)
(* comparisons.                                                            *)
(* Strings that the code inspects character by character are sequences of  *)
(* one-character strings.                                                  *)
(***************************************************************************)
EXTENDS Integers, Sequences, FiniteSets, TLC

VARIABLES
    revision,           \* which revision of the script the page runs
    loadPc,             \* window load handler: "start", "loading", "done"
    model,              \* let model: "null", "ok", "invalid" (no predict)
    verifyParam,        \* raw verify= parameter the load handler has read
    currentConfidence,  \* let currentConfidence
    loader,             \* loader.style.display
    output,             \* output.textContent / innerHTML
    resultAction,       \* resultAction.style.display
    mintButton,         \* mintButton.disabled and its label
    statusMessage,      \* statusMessage.textContent / innerHTML
    certIdInput,        \* certIdInput.value
    qrDisplay,          \* identifier whose QR image the qrDisplay element shows
    uploads,            \* file selections with an event still to come
    uploadsStarted,     \* number of file selections that started processing
    lastUpload,         \* how the last file selection to end has ended
    errorsShown,        \* number of analyses that ended with an error message
    predictCalls,       \* number of model.predict invocations
    liveTensors,        \* tensors created by inference and not disposed
    diagnoses,          \* number of diagnoseModel calls
    predData,           \* output vector of the last model.predict invocation
    predResult,         \* what the last predictImage call returned or threw
    mints,              \* mintCertificate calls awaiting a response
    mintClicks,         \* number of clicks on the mint button
    alerts,             \* number of alert() dialogs shown
    lastMint,           \* the last mintCertificate call to return
    generateButton,     \* generateButton.disabled (legacy revision)
    downloads,          \* downloadCertificate calls awaiting a response
    downloadClicks,     \* number of clicks on the generate button
    lastDownload,       \* the last downloadCertificate call to return
    verifies,           \* verifyCertificate calls awaiting a response
    verifyCalls,        \* number of verifyCertificate calls
    verifyArg,          \* the argument of the last verifyCertificate call
    lastVerify          \* the last verification to finish

loadVars == << loadPc, model, verifyParam >>
analysisVars == << currentConfidence, resultAction, uploads, uploadsStarted,
                   lastUpload, errorsShown, predictCalls, liveTensors,
                   diagnoses, predData, predResult >>
mintVars == << mintButton, mints, mintClicks, alerts, lastMint >>
downloadVars == << generateButton, downloads, downloadClicks, lastDownload >>
verifyVars == << qrDisplay, verifies, verifyCalls, verifyArg, lastVerify >>

vars == << revision, loadVars, loader, output, statusMessage, certIdInput,
           analysisVars, mintVars, downloadVars, verifyVars >>

---------------------------------------------------------------------------
(* Bounds of the model.                                                    *)

MaxUploads == 2        \* file selections per run
MaxMintClicks == 2     \* clicks on the mint button per run
MaxVerifyCalls == 2    \* verifyCertificate calls per run
MaxFracDigits == 10    \* longest fraction of Math.random().toString(36)
MaxDiagnoses == 2      \* diagnoseModel calls per run
MaxGrid == 20          \* the output grid spans -MaxGrid/100 .. 1+MaxGrid/100
ExpTerms == 18         \* terms of the exponential series

---------------------------------------------------------------------------
(* JavaScript numbers.                                                     *)

Scale == 100 * 100

NaN == 0 - 1000000000

IsNaN(x) == x = NaN

\* a < b, a >= b, ... : every comparison with NaN is false
Lt(a, b) == ~IsNaN(a) /\ ~IsNaN(b) /\ a < b
Gt(a, b) == ~IsNaN(a) /\ ~IsNaN(b) /\ a > b
Ge(a, b) == ~IsNaN(a) /\ ~IsNaN(b) /\ a >= b

Add(a, b) == IF IsNaN(a) \/ IsNaN(b) THEN NaN ELSE a + b

\* Math.max / Math.min: NaN if any argument is NaN
MathMax(a, b) == IF IsNaN(a) \/ IsNaN(b) THEN NaN ELSE IF a >= b THEN a ELSE b
MathMin(a, b) == IF IsNaN(a) \/ IsNaN(b) THEN NaN ELSE IF a <= b THEN a ELSE b

\* v * 100 of a model output v: the percentage, same integer in its own unit
Times100(v) == v

\* e^y for y >= 0 (fixed point), by its series; ExpTerms terms

RECURSIVE ExpSeries(_, _, _, _)
ExpSeries(y, k, term, acc) ==
    IF k > ExpTerms \/ term = 0 THEN acc
    ELSE ExpSeries(y, k + 1, (term * y) \div (k * Scale), acc + term)

\* Math.exp(x) for x <= 0
MathExp(x) ==
    IF IsNaN(x) THEN NaN
    ELSE (Scale * Scale) \div ExpSeries(0 - x, 1, Scale, 0)

\* Number.prototype.toFixed(n) of a percentage: rounded to n decimals,
\* returned in units of 10^-n percent ("NaN" stays NaN)
ToFixed(c, n) ==
    IF IsNaN(c) THEN NaN
    ELSE IF n = 1 THEN (IF c >= 0 THEN (c + 5) \div 10 ELSE 0 - ((5 - c) \div 10))
    ELSE c

---------------------------------------------------------------------------
(* JavaScript strings, as sequences of characters.                         *)

LowerCase == << "a", "b", "c", "d", "e", "f", "g", "h", "i", "j", "k", "l", "m",
                "n", "o", "p", "q", "r", "s", "t", "u", "v", "w", "x", "y", "z" >>
UpperCase == << "A", "B", "C", "D", "E", "F", "G", "H", "I", "J", "K", "L", "M",
                "N", "O", "P", "Q", "R", "S", "T", "U", "V", "W", "X", "Y", "Z" >>

UpperChar(c) ==
    IF \E i \in 1..Len(LowerCase) : LowerCase[i] = c
    THEN UpperCase[CHOOSE i \in 1..Len(LowerCase) : LowerCase[i] = c]
    ELSE c

\* String.prototype.toUpperCase
ToUpperCase(s) == [i \in 1..Len(s) |-> UpperChar(s[i])]

WhiteSpace == { " ", "\t", "\n" }

RECURSIVE TrimStart(_)
TrimStart(s) ==
    IF s # << >> /\ Head(s) \in WhiteSpace THEN TrimStart(Tail(s)) ELSE s

RECURSIVE TrimEnd(_)
TrimEnd(s) ==
    IF s # << >> /\ s[Len(s)] \in WhiteSpace
    THEN TrimEnd(SubSeq(s, 1, Len(s) - 1)) ELSE s

\* String.prototype.trim
Trim(s) == TrimEnd(TrimStart(s))

\* String.prototype.startsWith
StartsWith(s, p) == Len(s) >= Len(p) /\ SubSeq(s, 1, Len(p)) = p

\* String.prototype.substr(start, length), start >= 0
Substr(s, start, length) ==
    SubSeq(s, start + 1, IF Len(s) < start + length THEN Len(s) ELSE start + length)

\* URLSearchParams.get: "+" decodes to a space (no % escapes in the model)
UrlParamGet(raw) == [i \in 1..Len(raw) |-> IF raw[i] = "+" THEN " " ELSE raw[i]]

---------------------------------------------------------------------------
(* Thresholds of the code, in the units above.                             *)

SoftmaxBelow == 9900        \* authenticProb + replicaProb < 0.99
SoftmaxAbove == 10100       \* authenticProb + replicaProb > 1.01
ClampMax == 10000           \* Math.min(100, confidence)
MintThreshold == 8500       \* currentConfidence < 85 in mintCertificate
AuthenticThreshold == 8500  \* currentConfidence >= 85 in the upload handler
UncertainThreshold == 5000  \* currentConfidence >= 50 in the upload handler
SubstrStart == 2            \* substr(2, 9)
SubstrLength == 9
MinIdLength == 5            \* trimmedId.length < 5

---------------------------------------------------------------------------
(* predictImage, the three revisions.  m is the value of the variable      *)
(* model, data the vector that model.predict(...).dataSync() yields when   *)
(* the classifier runs.  The result says whether the call threw, the       *)
(* returned percentage, and whether the classifier was invoked.            *)

Returned(c) == [kind |-> "value", value |-> c, invoked |-> TRUE]
Threw(why, ran) == [kind |-> why, value |-> 0, invoked |-> ran]

\* softmax of the pair, as a percentage (src/app.js 360-364)
SoftmaxConfidence(authenticProb, replicaProb) ==
    LET maxVal == MathMax(authenticProb, replicaProb)
        expAuth == MathExp(IF IsNaN(maxVal) THEN NaN ELSE authenticProb - maxVal)
        expRep == MathExp(IF IsNaN(maxVal) THEN NaN ELSE replicaProb - maxVal)
        sumExp == Add(expAuth, expRep)
    IN  IF IsNaN(sumExp) THEN NaN ELSE (expAuth * Scale) \div sumExp

\* Math.max(0, Math.min(100, confidence))
Clamp(confidence) == MathMax(0, MathMin(ClampMax, confidence))

\* the two-output branch of the later revision (src/app.js 339-368).
\* TwoOutputSwapped is the variant the code's comment describes, with the
\* two indices exchanged; with it in place of TwoOutputConfidence,
\* C7_NoSoftmaxNearOne must fail.
TwoOutputSwapped(data) ==
    LET authenticIndex == 1
        replicaIndex == 0
        authenticProb == data[authenticIndex + 1]
        replicaProb == data[replicaIndex + 1]
        sum == Add(authenticProb, replicaProb)
    IN  IF Lt(sum, SoftmaxBelow) \/ Gt(sum, SoftmaxAbove)
        THEN SoftmaxConfidence(authenticProb, replicaProb)
        ELSE Times100(authenticProb)
TwoOutputConfidence(data) ==
    LET authenticIndex == 0
        replicaIndex == 1
        authenticProb == data[authenticIndex + 1]
        replicaProb == data[replicaIndex + 1]
        sum == Add(authenticProb, replicaProb)
    IN  IF Lt(sum, SoftmaxBelow) \/ Gt(sum, SoftmaxAbove)
        THEN SoftmaxConfidence(authenticProb, replicaProb)
        ELSE Times100(authenticProb)

\* later revision, src/app.js 308-383.  predictImageAnyShape is a variant
\* that accepts an output of any length; with it in place of predictImage,
\* C9_InferenceFailureReported must fail.
predictImageAnyShape(m, data) ==
    IF m = "null" THEN Threw("Model not loaded", FALSE)
    ELSE IF m = "invalid" THEN Threw("TypeError", FALSE)
    ELSE IF Len(data) = 2 THEN Returned(Clamp(TwoOutputConfidence(data)))
    ELSE Returned(Clamp(Times100(data[1])))
predictImage(m, data) ==
    IF m = "null" THEN Threw("Model not loaded", FALSE)
    ELSE IF m = "invalid" THEN Threw("TypeError", FALSE)
    ELSE IF Len(data) = 1 THEN Returned(Clamp(Times100(data[1])))
    ELSE IF Len(data) = 2 THEN Returned(Clamp(TwoOutputConfidence(data)))
    ELSE Threw("Unexpected output shape", TRUE)

\* early revision, src/app.js 52-101: first output times 100, no clamp
predictImageEarly(m, data) ==
    IF m = "null" THEN Threw("Model not loaded", FALSE)
    ELSE IF m = "invalid" THEN Threw("TypeError", FALSE)
    ELSE Returned(Times100(data[1]))

RECURSIVE MaxOf(_)
MaxOf(data) ==
    IF Len(data) = 1 THEN data[1] ELSE MathMax(data[1], MaxOf(Tail(data)))

\* legacy revision, src/unnamed/part_000 46-59: largest output times 100
predictImageLegacy(m, data) ==
    IF m # "ok" THEN Threw("TypeError", FALSE)
    ELSE Returned(Times100(MaxOf(data)))

PredictFor(rev, m, data) ==
    CASE rev = "later" -> predictImage(m, data)
      [] rev = "early" -> predictImageEarly(m, data)
      [] OTHER -> predictImageLegacy(m, data)

---------------------------------------------------------------------------
(* Tensors.  A tensor stays allocated until it is disposed; tf.tidy(fn)    *)
(* disposes, when fn returns or throws, every tensor created while fn ran  *)
(* that fn does not return.                                                *)

\* what tf.tidy leaves of the tensors created in its scope
Tidy(created, returned) == created \cap returned

\* the tensors predictImage creates (src/app.js 315-326, 59-77;
\* part_000 49-53); the slice only for a four-channel image
PredictCreated ==
    { "imgTensor", "sliced", "resized", "toFloat", "normalized", "batched",
      "prediction" }

\* the tensors left when predictImage has returned or thrown: it creates
\* none without a model (src/app.js 309-311, 53-55), and runs in tf.tidy
\* and returns a number otherwise (src/app.js 313, 57; part_000 48)
PredictLeft(rev, m) ==
    IF rev # "legacy" /\ m = "null" THEN { } ELSE Tidy(PredictCreated, { })

\* the tensors diagnoseModel creates (src/model-diagnostic.js 36-58) and
\* those it disposes (39-72): the input of the last prediction is created
\* in the call of model.predict and kept in no variable
DiagnoseCreated ==
    { "blackImage", "blackPred", "whiteImage", "whitePred", "noiseImage",
      "noisePred", "testInput", "testPred" }

DiagnoseDisposed ==
    { "blackImage", "blackPred", "whiteImage", "whitePred", "noiseImage",
      "noisePred", "testPred" }

\* the tensors left when diagnoseModel has returned: it returns at once
\* without a model (14-17) and throws on model.inputs of an object that is
\* no model (23), before it creates a tensor
DiagnoseLeft(m) == IF m = "ok" THEN DiagnoseCreated \ DiagnoseDisposed ELSE { }

---------------------------------------------------------------------------
(* Inputs of the environment.                                              *)

\* vectors of model.predict(...).dataSync()
PredVectors ==
    { << 9000 >>, << 8500, 1500 >>, << 8499 >>, << 5000, 5000 >>, << 4999 >>,
      << 2000, 8000 >>, << 5500, 5000 >>, << 15000, 0 - 5000 >>,
      << NaN, 5000 >>, << 3000, 3000, 4000 >> }

\* a grid of outputs in steps of 0.01, and NaN
GridValues == { k * 100 : k \in (0 - MaxGrid)..(100 + MaxGrid) } \cup { NaN }

\* every one-element vector of the grid, every two-element vector of the
\* grid with NaN in it or with a sum within MaxGrid/100 of 1, and a longer
\* vector
GridVectors ==
    { << a >> : a \in GridValues } \cup
    { v \in { << a, b >> : a \in GridValues, b \in GridValues } :
          \/ IsNaN(v[1]) \/ IsNaN(v[2])
          \/ /\ v[1] + v[2] >= Scale - MaxGrid * 100
             /\ v[1] + v[2] <= Scale + MaxGrid * 100 } \cup
    { << 15000, 0 - 5000 >>, << 3000, 3000, 4000 >> }

\* the vectors of a run in which certificates are minted: two authentic
\* scores, a replica score and NaN
MintVectors == { << 9000 >>, << 8500, 1500 >>, << 2000, 8000 >>, << NaN, 5000 >> }

\* outcomes of tf.loadLayersModel: a model, an object without predict, a
\* rejection
LoadOutcomes == { "ok", "invalid", "reject" }

\* outcomes of a fetch: a status line, a 200 whose body cannot be read
\* (response.json() / response.blob() rejects), or a rejected fetch
Responses == { "200", "200 bad body", "404", "500", "reject" }

ResponseOk(resp) == resp \in { "200", "200 bad body" }

\* digits that Math.random().toString(36) can show after "0."
Base36Digits == << "i", "a", "7", "k", "2", "z", "q", "9", "m", "x", "4", "b" >>

FracDigits(n) ==
    [i \in 1..n |-> Base36Digits[((i - 1) % Len(Base36Digits)) + 1]]

\* Math.random().toString(36): "0" when the draw is 0, else "0." and at
\* least one digit (one digit for 0.5, two for 0.125, ..., usually 10-12)
RandomStrings ==
    { << "0" >> } \cup
    { << "0", "." >> \o FracDigits(n) : n \in { 1, 2, MaxFracDigits - 1, MaxFracDigits } }

\* the draws of a run in which certificates are minted: the shortest
\* non-zero one and the longest
MintRandoms == { << "0", "." >> \o FracDigits(n) : n \in { 1, MaxFracDigits } }

OF == << "O", "F", "-" >>

\* 'OF-' + Math.random().toString(36).substr(2, 9).toUpperCase()
NewCertId(random) == OF \o ToUpperCase(Substr(random, SubstrStart, SubstrLength))

\* every identifier mintCertificate can generate
MintableIds == { NewCertId(r) : r \in RandomStrings }

\* what a user may have typed into certIdInput
TypedInputs ==
    MintableIds \cup
    { << >>, << " " >>, << " ", "o", "f", "-", "i", "a", " " >>,
      << "X", "F", "-", "I", "A" >> }

\* the raw verify= query parameter of the page URL; << >>: absent or empty
HandWrittenParams == { << >>, << "o", "f", "-", "i", "a", "+" >>, << "I", "A" >> }

VerifyParams == MintableIds \cup HandWrittenParams

---------------------------------------------------------------------------
(* What the page shows: a text is a message kind, with the number and the  *)
(* identifier or the HTTP status interpolated into it (0, << >> and "" when *)
(* it has none).  Colours and markup are left out.                         *)

T(kind) == [kind |-> kind, num |-> 0, id |-> << >>, status |-> ""]
TN(kind, n) == [kind |-> kind, num |-> n, id |-> << >>, status |-> ""]
TI(kind, id) == [kind |-> kind, num |-> 0, id |-> id, status |-> ""]
TS(kind, status) == [kind |-> kind, num |-> 0, id |-> << >>, status |-> status]

Revisions == { "legacy", "early", "later" }

RemoveAt(seq, i) == SubSeq(seq, 1, i - 1) \o SubSeq(seq, i + 1, Len(seq))

NoUpload == [n |-> 0, outcome |-> "none"]

NoMint ==
    [n |-> 0, id |-> << >>, phase |-> "none", conf |-> 0, pdfConf |-> 0,
     storeResp |-> "", pdfResp |-> "", nPost |-> 0, nPdf |-> 0,
     downloaded |-> FALSE]

NoVerify ==
    [n |-> 0, id |-> << >>, phase |-> "none", resp |-> "",
     nGet |-> 0, nQr |-> 0]

NoDownload == [n |-> 0, id |-> << >>, phase |-> "none", resp |-> "", downloaded |-> FALSE]

ButtonReady == [disabled |-> FALSE, text |-> "Mint Certificate"]
ButtonBusy == [disabled |-> TRUE, text |-> "Processing..."]

\* the state after the script has been evaluated
\* (src/app.js 272-276, 18-21; src/unnamed/part_000 16-18).  What the page's
\* HTML shows at first is not in the repository: texts start empty, inline
\* styles unset, the mint button enabled.
Init ==
    /\ revision \in Revisions
    /\ loadPc = "start"
    /\ model = "null"
    /\ verifyParam = << >>
    /\ currentConfidence = 0
    /\ loader = "none"
    /\ output = T("")
    /\ resultAction = ""
    /\ mintButton = ButtonReady
    /\ statusMessage = T("")
    /\ certIdInput = << >>
    /\ qrDisplay = << >>
    /\ uploads = << >>
    /\ uploadsStarted = 0
    /\ lastUpload = NoUpload
    /\ errorsShown = 0
    /\ predictCalls = 0
    /\ liveTensors = 0
    /\ diagnoses = 0
    /\ predData = << >>
    /\ predResult = [kind |-> "none", value |-> 0, invoked |-> FALSE]
    /\ mints = << >>
    /\ mintClicks = 0
    /\ alerts = 0
    /\ lastMint = NoMint
    /\ generateButton = [disabled |-> FALSE]
    /\ downloads = << >>
    /\ downloadClicks = 0
    /\ lastDownload = NoDownload
    /\ verifies = << >>
    /\ verifyCalls = 0
    /\ verifyArg = << >>
    /\ lastVerify = NoVerify

---------------------------------------------------------------------------
(* Certificate verification.                                               *)

\* the local checks of the later revision on the trimmed, upper-cased
\* identifier (src/app.js 466-477).  IdCheckNoLength is a variant without
\* the length check; with it in place of IdCheck, C3_InvalidInputRejected
\* must fail.
IdCheckNoLength(trimmedId) ==
    IF trimmedId = << >> THEN "empty"
    ELSE IF ~StartsWith(trimmedId, OF) THEN "format"
    ELSE "ok"
IdCheck(trimmedId) ==
    IF trimmedId = << >> THEN "empty"
    ELSE IF ~StartsWith(trimmedId, OF) \/ Len(trimmedId) < MinIdLength THEN "format"
    ELSE "ok"

\* the only local check of the early revision (src/app.js 161)
IdCheckEarly(trimmedId) == IF trimmedId = << >> THEN "empty" ELSE "ok"

\* String conversions of the argument (src/app.js 464; 159)
NormalizeId(certId) == ToUpperCase(Trim(certId))
NormalizeIdEarly(certId) == Trim(certId)

\* a certificate request in flight: GET (later) or HEAD (early)
VerifyCall(n, trimmedId) ==
    [n |-> n, id |-> trimmedId, phase |-> "get", resp |-> "",
     nGet |-> 1, nQr |-> 0]

\* verifyCertificate up to its first await (src/app.js 463-484; 158-172)
verifyCertificate(certId) ==
    LET trimmedId == IF revision = "later" THEN NormalizeId(certId)
                     ELSE NormalizeIdEarly(certId)
        check == IF revision = "later" THEN IdCheck(trimmedId)
                 ELSE IdCheckEarly(trimmedId)
    IN  /\ verifyArg' = certId
        /\ verifyCalls' = verifyCalls + 1
        /\ IF check = "empty"
           THEN /\ statusMessage' = T("Please enter a Certificate ID to verify.")
                /\ UNCHANGED << certIdInput, verifies >>
           ELSE IF check = "format"
           THEN /\ statusMessage' = T("Invalid certificate format. IDs start with OF-")
                /\ UNCHANGED << certIdInput, verifies >>
           ELSE /\ statusMessage' = TI("Verifying ID", trimmedId)
                /\ certIdInput' = trimmedId
                /\ verifies' = Append(verifies, VerifyCall(verifyCalls + 1, trimmedId))

\* what the later revision does with the response of GET /certificate/{id}
\* (src/app.js 486-509): the status text, whether output is rewritten, and
\* whether displayVerificationQR is called.  VerifyOutcomeQrAlways is a
\* variant that calls displayVerificationQR whatever the answer; with it in
\* place of VerifyOutcome, C2_NotFoundNoQr must fail.
VerifyOutcomeQrAlways(resp, id) ==
    IF resp = "200"
    THEN [status |-> TI("Verified Authentic", id), verified |-> TRUE, qr |-> TRUE]
    ELSE IF resp = "404"
    THEN [status |-> T("Certificate Not Found"), verified |-> FALSE, qr |-> TRUE]
    ELSE [status |-> TS("Verification error: Verification failed", resp),
          verified |-> FALSE, qr |-> TRUE]
VerifyOutcome(resp, id) ==
    IF resp = "200"
    THEN [status |-> TI("Verified Authentic", id), verified |-> TRUE, qr |-> TRUE]
    ELSE IF resp = "200 bad body"
    THEN [status |-> T("Verification error: invalid JSON"), verified |-> FALSE, qr |-> FALSE]
    ELSE IF resp = "404"
    THEN [status |-> T("Certificate Not Found"), verified |-> FALSE, qr |-> FALSE]
    ELSE IF resp = "reject"
    THEN [status |-> T("Verification error: Failed to fetch"), verified |-> FALSE, qr |-> FALSE]
    ELSE [status |-> TS("Verification error: Verification failed", resp),
          verified |-> FALSE, qr |-> FALSE]

\* the same for the HEAD of the early revision (src/app.js 174-184)
VerifyOutcomeEarly(resp, id) ==
    IF ResponseOk(resp)
    THEN [status |-> TI("Verified Authentic", id), verified |-> TRUE, qr |-> FALSE]
    ELSE IF resp = "reject"
    THEN [status |-> TI("Verification check failed (Network error)", id),
          verified |-> FALSE, qr |-> FALSE]
    ELSE [status |-> T("Certificate Invalid or Not Found"), verified |-> FALSE, qr |-> FALSE]

\* the user edits the certIdInput field (src/app.js 268, 14;
\* src/unnamed/part_000 12)
TypeCertId(s) ==
    /\ certIdInput # s
    /\ certIdInput' = s
    /\ UNCHANGED << revision, loadVars, loader, output, statusMessage,
                    analysisVars, mintVars, downloadVars, verifyVars >>

\* verifyButton click handler (src/app.js 575-577, 226-228)
VerifyButtonClick ==
    /\ revision \in { "early", "later" }
    /\ verifyCalls < MaxVerifyCalls
    /\ verifyCertificate(Trim(certIdInput))
    /\ UNCHANGED << revision, loadVars, loader, output, analysisVars, mintVars, downloadVars,
                    qrDisplay, lastVerify >>

\* the response of the certificate request arrives: the rest of
\* verifyCertificate, and displayVerificationQR up to its fetch
\* (src/app.js 484-510, 513-520; 172-185).  hasQrDisplay: whether the page
\* has a qrDisplay element.
VerifyResponse(i, resp, hasQrDisplay) ==
    /\ verifies[i].phase = "get"
    /\ LET id == verifies[i].id
           o == IF revision = "later" THEN VerifyOutcome(resp, id)
                ELSE VerifyOutcomeEarly(resp, id)
           fetchQr == o.qr /\ hasQrDisplay
           call == [verifies[i] EXCEPT !.resp = resp,
                                       !.phase = IF fetchQr THEN "qr" ELSE "done",
                                       !.nQr = IF fetchQr THEN @ + 1 ELSE @]
       IN  /\ o.qr \/ hasQrDisplay
           /\ statusMessage' = o.status
           /\ output' = IF ~o.verified THEN output
                        ELSE IF revision = "later" THEN T("Certificate Verified")
                        ELSE T("Certificate Verified via Scan")
           /\ IF fetchQr
              THEN /\ verifies' = [verifies EXCEPT ![i] = call]
                   /\ UNCHANGED lastVerify
              ELSE /\ verifies' = RemoveAt(verifies, i)
                   /\ lastVerify' = call
    /\ UNCHANGED << revision, loadVars, loader, certIdInput, analysisVars,
                    mintVars, downloadVars, qrDisplay, verifyCalls, verifyArg >>

\* the response of GET /qr/{id} arrives (src/app.js 520-530)
QrResponse(i, resp) ==
    /\ verifies[i].phase = "qr"
    /\ qrDisplay' = IF resp = "200" THEN verifies[i].id ELSE qrDisplay
    /\ verifies' = RemoveAt(verifies, i)
    /\ lastVerify' = [verifies[i] EXCEPT !.phase = "done"]
    /\ UNCHANGED << revision, loadVars, loader, output, statusMessage,
                    certIdInput, analysisVars, mintVars, downloadVars, verifyCalls, verifyArg >>

---------------------------------------------------------------------------
(* Page load.                                                              *)

\* window load handler up to the await in loadModel
\* (src/app.js 581-582, 280-286; 232-233, 25-33; part_000 167-168, 25-30)
WindowLoad ==
    /\ loadPc = "start"
    /\ loadPc' = "loading"
    /\ loader' = "block"
    /\ output' = T("Loading AI model...")
    /\ UNCHANGED << revision, model, verifyParam, statusMessage, certIdInput,
                    analysisVars, mintVars, downloadVars, verifyVars >>

\* the rest of loadModel (src/app.js 286-304, 33-48; part_000 30-38).
\* app.js assigns model before it checks model.predict.
LoadModelRest(outcome) ==
    /\ loader' = "none"
    /\ model' = IF outcome = "reject" THEN model ELSE outcome
    /\ output' = IF revision = "legacy"
                 THEN IF outcome = "reject" THEN T("Error loading model.")
                      ELSE T("AI Model loaded. Upload an image for authentication.")
                 ELSE IF outcome = "ok" THEN T("Ready. Upload an image.")
                 ELSE T("System Error: Model could not be loaded.")

\* if (verifyId) in the load handler (src/app.js 587, 238), which does not
\* look at how loadModel ended.  AutoVerifyIfLoaded is a variant that
\* verifies only under a loaded model; with it in place of AutoVerify,
\* C12_AutoVerifyOnLoad must fail.
AutoVerifyIfLoaded(outcome, verifyId) == outcome = "ok" /\ verifyId # << >>
AutoVerify(outcome, verifyId) == verifyId # << >>

\* tf.loadLayersModel settles: the rest of loadModel, then the rest of the
\* load handler, which starts a verification when the URL carries a
\* non-empty verify parameter (src/app.js 584-594, 235-245).  rawParam is the
\* raw value of the parameter, << >> when it is absent or empty.  The
\* legacy handler (part_000 167-169) reads no parameter.
LoadModelSettled(outcome, rawParam) ==
    /\ loadPc = "loading"
    /\ loadPc' = "done"
    /\ LoadModelRest(outcome)
    /\ revision = "legacy" => rawParam = << >>
    /\ verifyParam' = rawParam
    /\ LET verifyId == UrlParamGet(rawParam)
       IN  IF revision # "legacy" /\ AutoVerify(outcome, verifyId)
           THEN /\ verifyCalls < MaxVerifyCalls
                /\ verifyCertificate(verifyId)
           ELSE UNCHANGED << statusMessage, certIdInput, verifies, verifyArg,
                             verifyCalls >>
    /\ UNCHANGED << revision, analysisVars, mintVars, downloadVars, qrDisplay, lastVerify >>

---------------------------------------------------------------------------
(* Minting.                                                                *)

\* the guard of mintCertificate (src/app.js 401, 118)
MintRefused(confidence) == Lt(confidence, MintThreshold)

\* storeResponse.ok (src/app.js 428).  StoreOkAlways is a variant that takes
\* every answer to the POST for a success; with it in place of StoreOk,
\* C1_StoreFailureAborts must fail.
StoreOkAlways(resp) == TRUE
StoreOk(resp) == ResponseOk(resp)

\* response.ok and a readable blob (src/app.js 437-438, 135-136).
\* PdfOkAlways is a variant that takes every answer to the PDF request for
\* a success; with it in place of PdfOk, C14_SuccessAfterBothRequests must
\* fail.
PdfOkAlways(resp) == TRUE
PdfOk(resp) == resp = "200"

\* the finally block of mintCertificate (src/app.js 457-460, 152-155): the
\* button is enabled again whether the call succeeded or not.
\* ButtonOnExitSuccessOnly is a variant that enables it on the success path
\* alone; with it in place of ButtonOnExit, C11_ButtonDisabledWhileMinting
\* must fail.
ButtonOnExitSuccessOnly(succeeded) == IF succeeded THEN ButtonReady ELSE ButtonBusy
ButtonOnExit(succeeded) == ButtonReady

\* a mintCertificate call at its first await: the POST of the later
\* revision carries currentConfidence, the GET of the early one does not
MintCall(n, id) ==
    [n |-> n, id |-> id, phase |-> IF revision = "later" THEN "post" ELSE "pdf",
     conf |-> currentConfidence, pdfConf |-> 0, storeResp |-> "", pdfResp |-> "",
     nPost |-> IF revision = "later" THEN 1 ELSE 0,
     nPdf |-> IF revision = "later" THEN 0 ELSE 1,
     downloaded |-> FALSE]

\* mintButton click: mintCertificate up to its first await
\* (src/app.js 400-426: the POST is issued; 117-133: the GET is issued).
\* A disabled button dispatches no click.  random is what
\* Math.random().toString(36) yields.
mintCertificate(random) ==
    /\ revision \in { "early", "later" }
    /\ ~mintButton.disabled
    /\ mintClicks < MaxMintClicks
    /\ mintClicks' = mintClicks + 1
    /\ IF MintRefused(currentConfidence)
       THEN /\ alerts' = alerts + 1
            /\ UNCHANGED << mints, statusMessage, mintButton >>
       ELSE /\ statusMessage' = T("Minting Certificate...")
            /\ mintButton' = ButtonBusy
            /\ mints' = Append(mints, MintCall(mintClicks + 1, NewCertId(random)))
            /\ UNCHANGED alerts
    /\ UNCHANGED << revision, loadVars, loader, output, certIdInput,
                    analysisVars, lastMint, downloadVars, verifyVars >>

\* the response of POST /certificate arrives (src/app.js 426-435, 454-460):
\* the PDF GET is issued with the confidence of that moment, or the call
\* ends in its catch and finally blocks
MintStoreResponse(i, resp) ==
    /\ mints[i].phase = "post"
    /\ IF StoreOk(resp)
       THEN /\ mints' = [mints EXCEPT ![i] =
                  [@ EXCEPT !.phase = "pdf", !.storeResp = resp, !.nPdf = @ + 1,
                            !.pdfConf = ToFixed(currentConfidence, 1)]]
            /\ UNCHANGED << statusMessage, mintButton, lastMint >>
       ELSE /\ mints' = RemoveAt(mints, i)
            /\ lastMint' = [mints[i] EXCEPT !.phase = "failed", !.storeResp = resp]
            /\ statusMessage' =
                  IF resp = "reject" THEN T("Minting failed: Failed to fetch")
                  ELSE TS("Minting failed: Failed to store certificate", resp)
            /\ mintButton' = ButtonOnExit(FALSE)
    /\ UNCHANGED << revision, loadVars, loader, output, certIdInput,
                    analysisVars, mintClicks, alerts, downloadVars, verifyVars >>

\* the response of the PDF GET arrives (src/app.js 435-460, 133-155)
MintPdfResponse(i, resp) ==
    /\ mints[i].phase = "pdf"
    /\ mints' = RemoveAt(mints, i)
    /\ IF PdfOk(resp)
       THEN /\ lastMint' = [mints[i] EXCEPT !.phase = "done", !.pdfResp = resp,
                                             !.downloaded = TRUE]
            /\ output' = TI("Certificate Minted! ID", mints[i].id)
            /\ statusMessage' =
                  IF revision = "later"
                  THEN TI("Download started. Certificate ID", mints[i].id)
                  ELSE T("Download started.")
            /\ certIdInput' = IF revision = "later" THEN mints[i].id ELSE certIdInput
       ELSE /\ lastMint' = [mints[i] EXCEPT !.phase = "failed", !.pdfResp = resp]
            /\ statusMessage' =
                  IF revision = "early" THEN T("Minting failed. API or network error.")
                  ELSE IF resp = "reject" THEN T("Minting failed: Failed to fetch")
                  ELSE IF resp = "200 bad body" THEN T("Minting failed: unreadable body")
                  ELSE TS("Minting failed: Worker returned status", resp)
            /\ UNCHANGED << output, certIdInput >>
    /\ mintButton' = ButtonOnExit(PdfOk(resp))
    /\ UNCHANGED << revision, loadVars, loader, analysisVars, mintClicks, alerts,
                    downloadVars, verifyVars >>

---------------------------------------------------------------------------
(* The certificate download of the legacy revision.                        *)

\* generateButton click: downloadCertificate up to its await
\* (src/unnamed/part_000 82-94).  A disabled button dispatches no click.
downloadCertificate ==
    /\ revision = "legacy"
    /\ ~generateButton.disabled
    /\ downloadClicks < MaxMintClicks
    /\ downloadClicks' = downloadClicks + 1
    /\ LET certId == Trim(certIdInput)
       IN  IF certId = << >>
           THEN /\ statusMessage' = T("Please enter a Certificate ID.")
                /\ UNCHANGED << generateButton, downloads >>
           ELSE /\ statusMessage' = T("Searching for certificate...")
                /\ generateButton' = [disabled |-> TRUE]
                /\ downloads' = Append(downloads,
                       [n |-> downloadClicks + 1, id |-> certId, phase |-> "get",
                        resp |-> "", downloaded |-> FALSE])
    /\ UNCHANGED << revision, loadVars, loader, output, certIdInput,
                    analysisVars, mintVars, lastDownload, verifyVars >>

\* the response of GET /certificate/{id} arrives
\* (src/unnamed/part_000 94-121)
DownloadResponse(i, resp) ==
    /\ downloads[i].phase = "get"
    /\ downloads' = RemoveAt(downloads, i)
    /\ lastDownload' = [downloads[i] EXCEPT !.phase = "done", !.resp = resp,
                                             !.downloaded = (resp = "200")]
    /\ statusMessage' =
          IF resp = "200" THEN TI("Success! Downloading certificate for ID", downloads[i].id)
          ELSE IF resp \in { "reject", "200 bad body" }
          THEN T("Network error or Worker is unavailable.")
          ELSE [TI("Error: Certificate ID not found or invalid.", downloads[i].id)
                   EXCEPT !.status = resp]
    /\ generateButton' = [disabled |-> FALSE]
    /\ UNCHANGED << revision, loadVars, loader, output, certIdInput,
                    analysisVars, mintVars, downloadClicks, verifyVars >>

---------------------------------------------------------------------------
(* Uploads.                                                                *)

\* what the later revision shows for a confidence (src/app.js 553-562).
\* VerdictTwoBands is a variant without the middle band; with it in place
\* of Verdict, C6_DecisionBands must fail.
VerdictTwoBands(c) ==
    IF Ge(c, AuthenticThreshold)
    THEN [output |-> TN("Authentic", ToFixed(c, 1)), resultAction |-> "block"]
    ELSE [output |-> TN("Potential Replica", ToFixed(c, 1)), resultAction |-> "none"]
Verdict(c) ==
    IF Ge(c, AuthenticThreshold)
    THEN [output |-> TN("Authentic", ToFixed(c, 1)), resultAction |-> "block"]
    ELSE IF Ge(c, UncertainThreshold)
    THEN [output |-> TN("Uncertain", ToFixed(c, 1)), resultAction |-> "none"]
    ELSE [output |-> TN("Potential Replica", ToFixed(c, 1)), resultAction |-> "none"]

\* what the early revision shows for a confidence (src/app.js 207-213)
VerdictEarly(c) ==
    IF Ge(c, AuthenticThreshold)
    THEN [output |-> TN("Authentic", ToFixed(c, 1)), resultAction |-> "block"]
    ELSE [output |-> TN("Potential Replica", ToFixed(c, 1)), resultAction |-> "none"]

Ended(n, outcome) == [n |-> n, outcome |-> outcome]

\* fileInput change handler up to reader.readAsDataURL
\* (src/app.js 537-545, 570; 191-199, 221; part_000 131-139, 159)
FileInputChange(hasFile) ==
    /\ uploadsStarted < MaxUploads
    /\ IF revision = "legacy"
       THEN IF ~hasFile
            THEN /\ output' = T("No file selected.")
                 /\ UNCHANGED << loader, resultAction, uploads, uploadsStarted >>
            ELSE IF model = "null"
            THEN /\ output' = T("Model not loaded yet. Please wait...")
                 /\ UNCHANGED << loader, resultAction, uploads, uploadsStarted >>
            ELSE /\ loader' = "block"
                 /\ output' = T("Processing image...")
                 /\ uploads' = Append(uploads, [n |-> uploadsStarted + 1, phase |-> "reading"])
                 /\ uploadsStarted' = uploadsStarted + 1
                 /\ UNCHANGED resultAction
       ELSE /\ hasFile
            /\ loader' = "block"
            /\ output' = T("Analyzing...")
            /\ resultAction' = "none"
            /\ uploads' = Append(uploads, [n |-> uploadsStarted + 1, phase |-> "reading"])
            /\ uploadsStarted' = uploadsStarted + 1
    /\ UNCHANGED << revision, loadVars, statusMessage, certIdInput,
                    currentConfidence, lastUpload, errorsShown, predictCalls,
                    liveTensors, diagnoses,
                    predData, predResult, mintVars, downloadVars, verifyVars >>

\* reader.onload: showPreview, and the image starts to decode
\* (src/app.js 546-548, 385-396; 200-202, 103-113; part_000 140-146, 65-75)
ReaderOnLoad(u) ==
    /\ uploads[u].phase = "reading"
    /\ uploads' = [uploads EXCEPT ![u] = [@ EXCEPT !.phase = "decoding"]]
    /\ UNCHANGED << revision, loadVars, loader, output, statusMessage,
                    certIdInput, currentConfidence, resultAction, uploadsStarted,
                    lastUpload, errorsShown, predictCalls, liveTensors,
                    diagnoses, predData, predResult,
                    mintVars, downloadVars, verifyVars >>

\* the file cannot be read.  Only the legacy revision sets reader.onerror
\* (part_000 158); in app.js (545-570, 199-221) the event has no listener
\* and nothing further happens for this file.
ReaderOnError(u) ==
    /\ uploads[u].phase = "reading"
    /\ uploads' = RemoveAt(uploads, u)
    /\ IF revision = "legacy"
       THEN /\ loader' = "none"
            /\ output' = T("Error reading file.")
            /\ lastUpload' = Ended(uploads[u].n, "read error shown")
            /\ errorsShown' = errorsShown + 1
       ELSE /\ lastUpload' = Ended(uploads[u].n, "read error unhandled")
            /\ UNCHANGED << loader, output, errorsShown >>
    /\ UNCHANGED << revision, loadVars, statusMessage, certIdInput,
                    currentConfidence, resultAction, uploadsStarted, predictCalls,
                    liveTensors, diagnoses,
                    predData, predResult, mintVars, downloadVars, verifyVars >>

NoData == << >>

\* img.onload: predictImage and the display of its result
\* (src/app.js 548-568; 202-219; part_000 146-155).  data is what the
\* classifier yields; NoData when it does not run.
ImgOnLoad(u, data) ==
    /\ uploads[u].phase = "decoding"
    /\ (model = "ok") = (data # NoData)
    /\ LET r == PredictFor(revision, model, data)
       IN  /\ predResult' = r
           /\ predData' = IF r.invoked THEN data ELSE predData
           /\ predictCalls' = IF r.invoked THEN predictCalls + 1 ELSE predictCalls
           /\ liveTensors' = liveTensors + Cardinality(PredictLeft(revision, model))
           /\ loader' = "none"
           /\ uploads' = RemoveAt(uploads, u)
           /\ lastUpload' = Ended(uploads[u].n, IF r.kind = "value" THEN "verdict"
                                                ELSE "error shown")
           /\ errorsShown' = IF r.kind = "value" THEN errorsShown ELSE errorsShown + 1
           /\ IF revision = "legacy"
              THEN /\ output' = IF r.kind = "value"
                                 THEN TN("Confidence % Replica", ToFixed(r.value, 2))
                                 ELSE T("Error processing image.")
                   /\ UNCHANGED << currentConfidence, resultAction >>
              ELSE IF r.kind = "value"
              THEN LET v == IF revision = "later" THEN Verdict(r.value)
                            ELSE VerdictEarly(r.value)
                   IN  /\ currentConfidence' = r.value
                       /\ output' = v.output
                       /\ resultAction' = v.resultAction
              ELSE /\ output' = T("Analysis Error. Please try again.")
                   /\ UNCHANGED << currentConfidence, resultAction >>
    /\ UNCHANGED << revision, loadVars, statusMessage, certIdInput,
                    uploadsStarted, diagnoses, mintVars, downloadVars, verifyVars >>

\* the image cannot be decoded.  Only the legacy revision sets img.onerror
\* (part_000 156); in app.js (548-568, 202-219) the event has no listener
\* and nothing further happens for this file.
ImgOnError(u) ==
    /\ uploads[u].phase = "decoding"
    /\ uploads' = RemoveAt(uploads, u)
    /\ IF revision = "legacy"
       THEN /\ loader' = "none"
            /\ output' = T("Error loading image.")
            /\ lastUpload' = Ended(uploads[u].n, "decode error shown")
            /\ errorsShown' = errorsShown + 1
       ELSE /\ lastUpload' = Ended(uploads[u].n, "decode error unhandled")
            /\ UNCHANGED << loader, output, errorsShown >>
    /\ UNCHANGED << revision, loadVars, statusMessage, certIdInput,
                    currentConfidence, resultAction, uploadsStarted, predictCalls,
                    liveTensors, diagnoses,
                    predData, predResult, mintVars, downloadVars, verifyVars >>

\* diagnoseModel() is called from the console
\* (src/model-diagnostic.js 13-87)
diagnoseModel ==
    /\ diagnoses < MaxDiagnoses
    /\ diagnoses' = diagnoses + 1
    /\ predictCalls' = IF model = "ok" THEN predictCalls + 4 ELSE predictCalls
    /\ liveTensors' = liveTensors + Cardinality(DiagnoseLeft(model))
    /\ UNCHANGED << revision, loadVars, loader, output, statusMessage,
                    certIdInput, currentConfidence, resultAction, uploads,
                    uploadsStarted, lastUpload, errorsShown, predData,
                    predResult, mintVars, downloadVars, verifyVars >>

---------------------------------------------------------------------------
(* The page.  Spec is the whole page.  The other specifications are the    *)
(* same page with a user who performs only some of the operations, and     *)
(* with the inputs that matter for these operations.                       *)

Next ==
    \/ WindowLoad
    \/ \E outcome \in LoadOutcomes, raw \in VerifyParams : LoadModelSettled(outcome, raw)
    \/ \E hasFile \in BOOLEAN : FileInputChange(hasFile)
    \/ \E u \in DOMAIN uploads : ReaderOnLoad(u)
    \/ \E u \in DOMAIN uploads : ReaderOnError(u)
    \/ \E u \in DOMAIN uploads, data \in PredVectors \cup { NoData } : ImgOnLoad(u, data)
    \/ \E u \in DOMAIN uploads : ImgOnError(u)
    \/ diagnoseModel
    \/ \E random \in RandomStrings : mintCertificate(random)
    \/ \E i \in DOMAIN mints, resp \in Responses : MintStoreResponse(i, resp)
    \/ \E i \in DOMAIN mints, resp \in Responses : MintPdfResponse(i, resp)
    \/ downloadCertificate
    \/ \E i \in DOMAIN downloads, resp \in Responses : DownloadResponse(i, resp)
    \/ \E s \in TypedInputs : TypeCertId(s)
    \/ VerifyButtonClick
    \/ \E i \in DOMAIN verifies, resp \in Responses, hasQr \in BOOLEAN :
          VerifyResponse(i, resp, hasQr)
    \/ \E i \in DOMAIN verifies, resp \in Responses : QrResponse(i, resp)

Spec == Init /\ [][Next]_vars

\* a user who only uploads images
NextAnalysis ==
    \/ WindowLoad
    \/ \E outcome \in LoadOutcomes : LoadModelSettled(outcome, << >>)
    \/ \E hasFile \in BOOLEAN : FileInputChange(hasFile)
    \/ \E u \in DOMAIN uploads : ReaderOnLoad(u)
    \/ \E u \in DOMAIN uploads : ReaderOnError(u)
    \/ \E u \in DOMAIN uploads, data \in PredVectors \cup { NoData } : ImgOnLoad(u, data)
    \/ \E u \in DOMAIN uploads : ImgOnError(u)

SpecAnalysis == Init /\ [][NextAnalysis]_vars

\* a user who uploads an image and runs the diagnostic script
NextDiagnose ==
    \/ WindowLoad
    \/ \E outcome \in LoadOutcomes : LoadModelSettled(outcome, << >>)
    \/ uploadsStarted = 0 /\ FileInputChange(TRUE)
    \/ \E u \in DOMAIN uploads : ReaderOnLoad(u)
    \/ \E u \in DOMAIN uploads, data \in PredVectors \cup { NoData } : ImgOnLoad(u, data)
    \/ diagnoseModel

SpecDiagnose == Init /\ [][NextDiagnose]_vars

\* a user who uploads one image; the classifier's output is any vector of
\* the grid
NextPredict ==
    \/ WindowLoad
    \/ \E outcome \in LoadOutcomes : LoadModelSettled(outcome, << >>)
    \/ uploadsStarted = 0 /\ FileInputChange(TRUE)
    \/ \E u \in DOMAIN uploads : ReaderOnLoad(u)
    \/ \E u \in DOMAIN uploads, data \in GridVectors \cup { NoData } : ImgOnLoad(u, data)

SpecPredict == Init /\ [][NextPredict]_vars

\* a user who only verifies certificates, by the verify= link or by the
\* verify button
NextVerify ==
    \/ WindowLoad
    \/ \E outcome \in LoadOutcomes, raw \in HandWrittenParams :
          LoadModelSettled(outcome, raw)
    \/ \E s \in TypedInputs : revision # "legacy" /\ TypeCertId(s)
    \/ VerifyButtonClick
    \/ \E i \in DOMAIN verifies, resp \in Responses, hasQr \in BOOLEAN :
          VerifyResponse(i, resp, hasQr)
    \/ \E i \in DOMAIN verifies, resp \in Responses : QrResponse(i, resp)

SpecVerify == Init /\ [][NextVerify]_vars

\* a user who uploads one authentic image, mints, and verifies what the
\* field holds; or who opens a verify= link.  The worker answers 200 to
\* the mint requests, and 200 or 404 to the verification.
NextRoundTrip ==
    \/ WindowLoad
    \/ \E raw \in VerifyParams : LoadModelSettled("ok", raw)
    \/ uploadsStarted = 0 /\ FileInputChange(TRUE)
    \/ \E u \in DOMAIN uploads : ReaderOnLoad(u)
    \/ \E u \in DOMAIN uploads, data \in { << 9000 >>, NoData } : ImgOnLoad(u, data)
    \/ \E random \in RandomStrings : mintCertificate(random)
    \/ \E i \in DOMAIN mints : MintStoreResponse(i, "200")
    \/ \E i \in DOMAIN mints : MintPdfResponse(i, "200")
    \/ VerifyButtonClick
    \/ \E i \in DOMAIN verifies, resp \in { "200", "404" } : VerifyResponse(i, resp, TRUE)
    \/ \E i \in DOMAIN verifies : QrResponse(i, "200")

SpecRoundTrip == Init /\ [][NextRoundTrip]_vars

\* what the user of the legacy page types before a download: blanks, or
\* an identifier
DownloadInputs == { << " " >> } \cup { NewCertId(r) : r \in MintRandoms }

\* a user who uploads readable images and mints; on the legacy page, who
\* downloads certificates
NextMint ==
    \/ WindowLoad
    \/ LoadModelSettled("ok", << >>)
    \/ FileInputChange(TRUE)
    \/ \E u \in DOMAIN uploads : ReaderOnLoad(u)
    \/ \E u \in DOMAIN uploads, data \in MintVectors \cup { NoData } : ImgOnLoad(u, data)
    \/ \E random \in MintRandoms : mintCertificate(random)
    \/ \E i \in DOMAIN mints, resp \in Responses : MintStoreResponse(i, resp)
    \/ \E i \in DOMAIN mints, resp \in Responses : MintPdfResponse(i, resp)
    \/ \E s \in DownloadInputs : revision = "legacy" /\ TypeCertId(s)
    \/ downloadCertificate
    \/ \E i \in DOMAIN downloads, resp \in Responses : DownloadResponse(i, resp)

SpecMint == Init /\ [][NextMint]_vars

---------------------------------------------------------------------------
(* Claims about minting and verification.                                  *)

\* every mintCertificate call that has passed the guard: those awaiting a
\* response and the last one to return
MintCallsSeen == { mints[i] : i \in DOMAIN mints } \cup { lastMint }

\* every verification that has passed the local checks
VerifyCallsSeen == { verifies[i] : i \in DOMAIN verifies } \cup { lastVerify }

MintFailureTexts ==
    { "Minting failed: Failed to fetch", "Minting failed: Failed to store certificate" }

\* C1: in the later revision, a mint call whose POST /certificate is
\* answered with a non-success status, or rejects, never issues the PDF GET
\* and triggers no download, has issued the POST exactly once, and returns
\* in the step that writes the failure to statusMessage; a PDF GET is in
\* flight only after a successful POST.
C1_StoreFailureAborts ==
    /\ [](revision = "later" =>
            \A c \in MintCallsSeen :
                /\ (c.storeResp # "" /\ ~ResponseOk(c.storeResp)) =>
                       (c.phase = "failed" /\ c.nPdf = 0 /\ ~c.downloaded /\ c.nPost = 1)
                /\ (c.nPdf > 0 \/ c.downloaded) => ResponseOk(c.storeResp))
    /\ [][(/\ revision = "later"
           /\ lastMint' # lastMint
           /\ ~ResponseOk(lastMint'.storeResp))
          => /\ statusMessage'.kind \in MintFailureTexts
             /\ statusMessage'.status =
                    (IF lastMint'.storeResp = "reject" THEN "" ELSE lastMint'.storeResp)
             /\ \A i \in DOMAIN mints' : mints'[i].n # lastMint'.n]_vars

\* a mint call of the later revision has ended on a POST answered 500
C1_Witness ==
    /\ revision = "later"
    /\ lastMint.phase = "failed"
    /\ lastMint.storeResp = "500"
    /\ lastMint.conf = 9000
    /\ statusMessage = TS("Minting failed: Failed to store certificate", "500")

\* C2: in the later revision, a verification whose GET /certificate/{id}
\* is answered 404 shows 'Certificate Not Found' in statusMessage and never
\* requests /qr/{id}; /qr/{id} is requested only after a 2xx answer, and at
\* most once.
C2_NotFoundNoQr ==
    /\ [](revision = "later" =>
            \A v \in VerifyCallsSeen :
                /\ v.resp = "404" => (v.nQr = 0 /\ v.phase = "done")
                /\ v.nQr > 0 => (ResponseOk(v.resp) /\ v.nQr = 1)
                /\ v.phase = "qr" => v.nQr = 1)
    /\ [][(/\ revision = "later"
           /\ lastVerify' # lastVerify
           /\ lastVerify'.resp = "404")
          => /\ statusMessage' = T("Certificate Not Found")
             /\ \A i \in DOMAIN verifies' : verifies'[i].n # lastVerify'.n]_vars

\* a verification of the later revision has ended on a 404
C2_Witness ==
    /\ revision = "later"
    /\ lastVerify.resp = "404"
    /\ lastVerify.nGet = 1
    /\ statusMessage = T("Certificate Not Found")

\* a verification of the later revision has fetched the QR image after a
\* 200
C2_WitnessQr ==
    /\ revision = "later"
    /\ lastVerify.resp = "200"
    /\ lastVerify.nQr = 1
    /\ qrDisplay = lastVerify.id

ValidationTexts ==
    { "Please enter a Certificate ID to verify.",
      "Invalid certificate format. IDs start with OF-" }

\* C3: in the later revision, a verifyCertificate call whose argument,
\* trimmed and upper-cased, is empty, does not start with 'OF-' or is
\* shorter than 5 characters writes a validation message to statusMessage,
\* starts no request and leaves certIdInput unchanged.
C3_InvalidInputRejected ==
    [][(/\ revision = "later"
        /\ verifyCalls' = verifyCalls + 1
        /\ LET t == ToUpperCase(Trim(verifyArg'))
           IN  t = << >> \/ ~StartsWith(t, OF) \/ Len(t) < 5)
       => /\ statusMessage'.kind \in ValidationTexts
          /\ verifies' = verifies
          /\ \A v \in VerifyCallsSeen' : v.n # verifyCalls'
          /\ certIdInput' = certIdInput]_vars

\* the later revision has just rejected 'OF-I' (four characters) typed
\* into the field, with no request in flight and the field as typed
C3_Witness ==
    /\ revision = "later"
    /\ verifyCalls > 0
    /\ verifyArg = << "O", "F", "-", "I" >>
    /\ certIdInput = verifyArg
    /\ statusMessage = T("Invalid certificate format. IDs start with OF-")
    /\ verifies = << >>
    /\ lastVerify = NoVerify

\* C4: in the later revision, every verifyCertificate call whose argument
\* is an identifier mintCertificate can generate, come from the
\* certIdInput field or from the verify= parameter, passes the local checks
\* and issues the GET for /certificate/{id} with exactly that identifier.
C4_RoundTrip ==
    [][(/\ revision = "later"
        /\ verifyCalls' = verifyCalls + 1
        /\ verifyArg' \in MintableIds)
       => \E i \in DOMAIN verifies' :
              /\ verifies'[i].n = verifyCalls'
              /\ verifies'[i].id = verifyArg'
              /\ verifies'[i].nGet = 1]_vars

\* the later revision has minted 'OF-I' (Math.random() = 0.5), put it into
\* certIdInput, and refused to verify it
C4_Witness ==
    /\ revision = "later"
    /\ lastMint.downloaded
    /\ lastMint.id = << "O", "F", "-", "I" >>
    /\ certIdInput = lastMint.id
    /\ verifyArg = lastMint.id
    /\ statusMessage = T("Invalid certificate format. IDs start with OF-")

\* the round trip of a nine-character suffix: minted, verified from the
\* field, and answered
C4_WitnessLong ==
    /\ revision = "later"
    /\ lastMint.downloaded
    /\ Len(lastMint.id) = Len(OF) + SubstrLength
    /\ lastVerify.id = lastMint.id
    /\ lastVerify.resp = "200"

\* C5: mintCertificate starts a remote call only if currentConfidence >= 85
\* when it is called; when currentConfidence < 85 it shows the alert, starts
\* no request and changes none of mintButton, statusMessage, output and
\* certIdInput.
C5_MintOnlyWhenAuthentic ==
    [][mintClicks' = mintClicks + 1
       => /\ mints' # mints => Ge(currentConfidence, 8500)
          /\ Lt(currentConfidence, 8500)
                => /\ alerts' = alerts + 1
                   /\ mints' = mints
                   /\ UNCHANGED << mintButton, statusMessage, output, certIdInput >>]_vars

\* a mint call was started while currentConfidence was NaN
C5_Witness ==
    /\ revision = "later"
    /\ \E i \in DOMAIN mints : IsNaN(mints[i].conf) /\ mints[i].nPost = 1

\* the alert was shown and nothing else happened: a replica score, a
\* click, no call
C5_WitnessRefused ==
    /\ currentConfidence = 2000
    /\ alerts = 1
    /\ mintClicks = 1
    /\ mints = << >>
    /\ lastMint = NoMint
    /\ mintButton = ButtonReady

---------------------------------------------------------------------------
(* Claims about the analysis of an upload.                                 *)

\* a step in which an upload ends with a verdict
VerdictStep == lastUpload' # lastUpload /\ lastUpload'.outcome = "verdict"

\* a step in which an upload ends with the error message of a failed
\* inference
ErrorStep == lastUpload' # lastUpload /\ lastUpload'.outcome = "error shown"

\* C6: in the later revision, when an analysis completes with confidence c,
\* c >= 85 shows 'Authentic' and resultAction; 50 <= c < 85 shows
\* 'Uncertain' and hides resultAction; c < 50 shows 'Potential Replica' and
\* hides resultAction; for c in [0,100] exactly one of the three applies.
\* The loader is hidden and the verdict carries c to one decimal.
C6_DecisionBands ==
    [][(revision = "later" /\ VerdictStep)
       => LET c == currentConfidence'
              authentic == output'.kind = "Authentic" /\ resultAction' = "block"
              uncertain == output'.kind = "Uncertain" /\ resultAction' = "none"
              replica == output'.kind = "Potential Replica" /\ resultAction' = "none"
          IN  /\ c = predResult'.value
              /\ loader' = "none"
              /\ output'.num = ToFixed(c, 1)
              /\ Ge(c, 8500) => authentic
              /\ (Ge(c, 5000) /\ Lt(c, 8500)) => uncertain
              /\ Lt(c, 5000) => replica
              /\ (Ge(c, 0) /\ Ge(10000, c))
                    => /\ authentic \/ uncertain \/ replica
                       /\ authentic <=> Ge(c, 8500)
                       /\ replica <=> Lt(c, 5000)]_vars

\* the later revision shows 'Uncertain' for 84.99 and hides the mint area
C6_Witness ==
    /\ revision = "later"
    /\ lastUpload.outcome = "verdict"
    /\ currentConfidence = 8499
    /\ output.kind = "Uncertain"
    /\ resultAction = "none"
    /\ loader = "none"

\* the later revision shows 'Authentic' for exactly 85, 'Uncertain' for
\* exactly 50, 'Potential Replica' for 49.99
C6_WitnessAuthentic ==
    revision = "later" /\ currentConfidence = 8500 /\ output.kind = "Authentic"
       /\ resultAction = "block"

C6_WitnessUncertain ==
    revision = "later" /\ currentConfidence = 5000 /\ output.kind = "Uncertain"

C6_WitnessReplica ==
    revision = "later" /\ currentConfidence = 4999
       /\ output.kind = "Potential Replica" /\ resultAction = "none"

\* x restricted to [0,100]
ClampedPercent(x) == IF x < 0 THEN 0 ELSE IF x > 10000 THEN 10000 ELSE x

\* a call of the later revision's predictImage has returned for a
\* two-element output without NaN
TwoOutputReturned ==
    /\ revision = "later"
    /\ predResult.kind = "value"
    /\ Len(predData) = 2
    /\ ~IsNaN(predData[1]) /\ ~IsNaN(predData[2])

C7_WitnessClamped ==
    /\ TwoOutputReturned
    /\ predData = << 12000, 0 - 2000 >>
    /\ predResult.value = 10000

\* C8: in every reachable state currentConfidence is in [0,100], and so is
\* every value predictImage has returned.
C8_ConfidenceInRange ==
    /\ Ge(currentConfidence, 0) /\ Ge(10000, currentConfidence)
    /\ predResult.kind = "value"
          => (Ge(predResult.value, 0) /\ Ge(10000, predResult.value))

\* the later revision has stored NaN in currentConfidence
C8_Witness ==
    /\ revision = "later"
    /\ IsNaN(currentConfidence)
    /\ output = TN("Potential Replica", NaN)

\* the early revision has stored 150 in currentConfidence
C8_WitnessEarly ==
    /\ revision = "early"
    /\ currentConfidence = 15000

\* C9: in the later revision the classifier is not invoked while model is
\* null, or has no predict; an upload whose inference fails (no model, or
\* an output of a length other than 1 and 2) shows the error message,
\* hides the loader, leaves currentConfidence unchanged and is over, with
\* the classifier invoked at most once; an upload ends with the error only
\* in these cases, whatever happened to the uploads before it.
C9_InferenceFailureReported ==
    /\ [][(revision = "later" /\ model # "ok") => predictCalls' = predictCalls]_vars
    /\ [][(revision = "later" /\ (VerdictStep \/ ErrorStep))
          => LET failed == \/ model # "ok"
                           \/ Len(predData') \notin { 1, 2 }
             IN  /\ ErrorStep <=> failed
                 /\ predictCalls' = IF model = "ok" THEN predictCalls + 1
                                    ELSE predictCalls
                 /\ \A u \in DOMAIN uploads' : uploads'[u].n # lastUpload'.n
                 /\ loader' = "none"
                 /\ errorsShown' = IF failed THEN errorsShown + 1 ELSE errorsShown
                 /\ ErrorStep
                       => /\ output' = T("Analysis Error. Please try again.")
                          /\ currentConfidence' = currentConfidence
                          /\ resultAction' = resultAction
                          /\ predResult'.kind \in
                                 IF model = "null" THEN { "Model not loaded" }
                                 ELSE IF model = "invalid" THEN { "TypeError" }
                                 ELSE { "Unexpected output shape" }]_vars

\* in the later revision the first upload failed on a three-element output
\* (an error shown, the classifier invoked) and the second one then got its
\* verdict
C9_Witness ==
    /\ revision = "later"
    /\ lastUpload = Ended(2, "verdict")
    /\ errorsShown = 1
    /\ predictCalls = 2
    /\ predData = << 9000 >>
    /\ currentConfidence = 9000
    /\ output.kind = "Authentic"
    /\ uploads = << >>

\* in the later revision an upload has failed on a three-element output,
\* with the score of the upload before it still in currentConfidence
C9_WitnessShape ==
    /\ revision = "later"
    /\ lastUpload = Ended(2, "error shown")
    /\ predResult = Threw("Unexpected output shape", TRUE)
    /\ currentConfidence = 9000
    /\ output = T("Analysis Error. Please try again.")
    /\ loader = "none"

\* in the later revision an upload has failed because loadModel had
\* failed, without the classifier being invoked
C9_WitnessNoModel ==
    /\ revision = "later"
    /\ loadPc = "done"
    /\ model = "null"
    /\ lastUpload.outcome = "error shown"
    /\ predResult = Threw("Model not loaded", FALSE)
    /\ predictCalls = 0

ProcessingTexts == { "Analyzing...", "Processing image..." }

\* C10: once every upload that started processing has had its last event
\* (and the model load is over, which shows the loader too), the loader is
\* hidden and output shows no processing text.
C10_UploadsReachTerminalDisplay ==
    (uploadsStarted > 0 /\ uploads = << >> /\ loadPc = "done")
    => (loader = "none" /\ output.kind \notin ProcessingTexts)

\* the later revision after an image that failed to decode: nothing is
\* pending, the loader is shown and output reads 'Analyzing...'
C10_Witness ==
    /\ revision = "later"
    /\ loadPc = "done"
    /\ uploads = << >>
    /\ lastUpload = Ended(1, "decode error unhandled")
    /\ loader = "block"
    /\ output = T("Analyzing...")

\* the legacy revision after an image that failed to decode: the error is
\* shown and the loader hidden
C10_WitnessLegacy ==
    /\ revision = "legacy"
    /\ lastUpload.outcome = "decode error shown"
    /\ loader = "none"
    /\ output = T("Error loading image.")

\* the same statement for the legacy revision alone, whose handlers cover
\* the read and the decode failure
C10_LegacyReachesTerminalDisplay ==
    revision = "legacy" => C10_UploadsReachTerminalDisplay

---------------------------------------------------------------------------
(* Claims about overlapping operations.                                    *)

\* C11: mintButton is disabled exactly while a mint call is in flight, and
\* shows 'Mint Certificate' whenever it is enabled, so whatever way a call
\* ends; with clicks dispatched by an enabled button only, at most one mint
\* call is in flight.  The same for generateButton and downloadCertificate
\* of the legacy revision.
C11_ButtonDisabledWhileMinting ==
    /\ mintButton.disabled <=> mints # << >>
    /\ mintButton = (IF mints # << >> THEN ButtonBusy ELSE ButtonReady)
    /\ Len(mints) <= 1
    /\ generateButton.disabled <=> downloads # << >>
    /\ Len(downloads) <= 1

\* in the later revision a second mint call has ended on a rejected PDF
\* request and the button is enabled again
C11_Witness ==
    /\ revision = "later"
    /\ lastMint.n = 2
    /\ lastMint.phase = "failed"
    /\ lastMint.pdfResp = "reject"
    /\ mints = << >>
    /\ mintButton = ButtonReady

\* a mint call is in flight and the button is disabled
C11_WitnessBusy ==
    /\ revision = "early"
    /\ Len(mints) = 1
    /\ mintButton = ButtonBusy

\* the legacy revision has ended a download on a 404 and enabled the button
C11_WitnessLegacy ==
    /\ revision = "legacy"
    /\ lastDownload.resp = "404"
    /\ ~generateButton.disabled
    /\ downloads = << >>

\* the verify= parameter as URLSearchParams decodes it
DecodedParam == [i \in DOMAIN verifyParam |-> IF verifyParam[i] = "+" THEN " "
                                              ELSE verifyParam[i]]

\* C12: the load handler (app.js) ends once, in the step in which loadModel
\* has settled (loader hidden, the result of the load shown); in that step
\* it calls verifyCertificate once with the decoded verify= parameter when
\* that is not empty, however the load ended, and makes no call when the
\* parameter is absent or empty.
C12_AutoVerifyOnLoad ==
    /\ [][loadPc = "done" => loadPc' = "done"]_vars
    /\ [][(revision # "legacy" /\ loadPc # "done" /\ loadPc' = "done")
          => /\ loadPc = "loading"
             /\ loader' = "none"
             /\ output'.kind \in { "Ready. Upload an image.",
                                   "System Error: Model could not be loaded." }
             /\ (output'.kind = "Ready. Upload an image.") <=> (model' = "ok")
             /\ IF DecodedParam' # << >>
                THEN /\ verifyCalls' = verifyCalls + 1
                     /\ verifyArg' = DecodedParam'
                ELSE /\ verifyCalls' = verifyCalls
                     /\ verifies' = verifies
                     /\ statusMessage' = statusMessage]_vars

\* the later revision has started the verification of ?verify=of-ia+ after
\* a failed model load
C12_Witness ==
    /\ revision = "later"
    /\ loadPc = "done"
    /\ model = "null"
    /\ output = T("System Error: Model could not be loaded.")
    /\ verifyParam = << "o", "f", "-", "i", "a", "+" >>
    /\ verifyArg = << "o", "f", "-", "i", "a", " " >>
    /\ verifyCalls = 1
    /\ Len(verifies) = 1
    /\ verifies[1].id = << "O", "F", "-", "I", "A" >>

\* a page without the parameter has loaded and verified nothing
C12_WitnessAbsent ==
    /\ revision = "later"
    /\ loadPc = "done"
    /\ verifyParam = << >>
    /\ verifyCalls = 0
    /\ statusMessage = T("")

SuccessStatus == { "200", "200 bad body" }

\* C14: in the later revision a mint call triggers the download, writes
\* 'Certificate Minted!' to output and its identifier to certIdInput only
\* when its POST and then its PDF GET, one of each, were answered with a
\* success status (and the PDF could be read); a call that ends in any
\* other way triggers no download and leaves output and certIdInput as
\* they were.
C14_SuccessAfterBothRequests ==
    /\ [](revision = "later" =>
            \A c \in MintCallsSeen :
                /\ c.downloaded
                      => /\ c.phase = "done"
                         /\ c.storeResp \in SuccessStatus /\ c.pdfResp = "200"
                         /\ c.nPost = 1 /\ c.nPdf = 1
                /\ c.nPdf > 0 => c.storeResp \in SuccessStatus
                /\ c.pdfResp # "" => c.storeResp \in SuccessStatus)
    /\ [][(revision = "later" /\ lastMint' # lastMint)
          => IF lastMint'.storeResp \in SuccessStatus /\ lastMint'.pdfResp = "200"
             THEN /\ lastMint'.downloaded
                  /\ output' = TI("Certificate Minted! ID", lastMint'.id)
                  /\ certIdInput' = lastMint'.id
             ELSE /\ ~lastMint'.downloaded
                  /\ output' = output
                  /\ certIdInput' = certIdInput]_vars
    /\ [][(revision = "later" /\ lastMint' = lastMint /\ mintClicks' # mintClicks)
          => (output' = output /\ certIdInput' = certIdInput)]_vars

\* the later revision has minted: both requests answered 200, the download
\* triggered, output and certIdInput rewritten
C14_Witness ==
    /\ revision = "later"
    /\ lastMint.downloaded
    /\ lastMint.storeResp = "200"
    /\ lastMint.pdfResp = "200"
    /\ output = TI("Certificate Minted! ID", lastMint.id)
    /\ certIdInput = lastMint.id

\* the later revision has ended a mint call on a PDF request answered 500,
\* with the verdict of the upload still in output
C14_WitnessPdfFailed ==
    /\ revision = "later"
    /\ lastMint.storeResp = "200"
    /\ lastMint.pdfResp = "500"
    /\ ~lastMint.downloaded
    /\ output.kind = "Authentic"
    /\ certIdInput = << >>

\* C15: in the later revision, for every mint call whose POST carried a
\* confidence of 85 or more, the confidence in the query of its PDF GET is
\* that confidence to one decimal, and so 85.0 or more, whatever uploads
\* complete while the POST awaits its answer.
C15_SameConfidenceInBothRequests ==
    revision = "later" =>
        \A c \in MintCallsSeen :
            (c.nPdf > 0 /\ Ge(c.conf, 8500))
                => (c.pdfConf = ToFixed(c.conf, 1) /\ Ge(c.pdfConf, 850))

\* the later revision has sent 90 in the POST and 20.0 in the PDF request
\* of the same mint call
C15_Witness ==
    /\ revision = "later"
    /\ \E i \in DOMAIN mints :
           /\ mints[i].phase = "pdf"
           /\ mints[i].conf = 9000
           /\ mints[i].pdfConf = 200
    /\ currentConfidence = 2000

\* without an upload in between, both requests carry the same confidence
C15_WitnessSame ==
    /\ revision = "later"
    /\ lastMint.downloaded
    /\ lastMint.conf = 8500
    /\ lastMint.pdfConf = 850

\* C16: in the later revision, when two or more uploads were started, the
\* classifier ran for each of them and none is pending, the confidence, the
\* verdict and the mint area on display are those of the upload started
\* last.
C16_LastSelectedFileShown ==
    ( /\ revision = "later"
      /\ uploads = << >>
      /\ uploadsStarted >= 2
      /\ predictCalls = uploadsStarted
      /\ lastUpload.outcome = "verdict" )
        => lastUpload.n = uploadsStarted

\* two uploads overlapped, the second was analysed first, and the page is
\* left with the verdict of the first
C16_Witness ==
    /\ revision = "later"
    /\ uploads = << >>
    /\ uploadsStarted = 2
    /\ predictCalls = 2
    /\ lastUpload = Ended(1, "verdict")
    /\ currentConfidence = predResult.value
    /\ output = Verdict(currentConfidence).output
    /\ resultAction = Verdict(currentConfidence).resultAction

\* the first upload is analysed while the second is still being read
C16_WitnessOverlap ==
    /\ revision = "later"
    /\ Len(uploads) = 1
    /\ uploads[1].n = 2
    /\ lastUpload = Ended(1, "verdict")

\* C17: in the later revision, whenever the analysis that completed last
\* ended in an error or with a confidence below 85, the mint area
\* (resultAction) is hidden.
C17_MintAreaHiddenUnlessAuthentic ==
    ( /\ revision = "later"
      /\ \/ lastUpload.outcome = "error shown"
         \/ lastUpload.outcome = "verdict" /\ Lt(currentConfidence, 8500) )
        => resultAction = "none"

\* the first of two overlapping uploads scored 85 or more, the second then
\* failed, and the mint area is still shown
C17_Witness ==
    /\ revision = "later"
    /\ uploads = << >>
    /\ lastUpload = Ended(2, "error shown")
    /\ output = T("Analysis Error. Please try again.")
    /\ Ge(currentConfidence, 8500)
    /\ resultAction = "block"

\* an analysis below 85 completes last and the mint area is hidden
C17_WitnessHidden ==
    /\ revision = "later"
    /\ uploadsStarted = 2
    /\ lastUpload.outcome = "verdict"
    /\ Lt(currentConfidence, 8500)
    /\ resultAction = "none"

\* C18: in the later revision, when verifyCertificate was called two or more
\* times, the last call passed the local checks, certIdInput still holds its
\* identifier and no verification is pending any more, statusMessage shows
\* an outcome of the verification of that identifier.
C18_StatusOfLastRequestedId ==
    ( /\ revision = "later"
      /\ verifyCalls >= 2
      /\ verifies = << >>
      /\ IdCheck(NormalizeId(verifyArg)) = "ok"
      /\ certIdInput = NormalizeId(verifyArg) )
        => \E resp \in Responses :
               statusMessage = VerifyOutcome(resp, certIdInput).status

\* two verifications overlapped, the one requested first was answered last,
\* and statusMessage reports the identifier that certIdInput no longer holds
C18_Witness ==
    /\ revision = "later"
    /\ verifyCalls = 2
    /\ verifies = << >>
    /\ IdCheck(NormalizeId(verifyArg)) = "ok"
    /\ certIdInput = NormalizeId(verifyArg)
    /\ statusMessage.kind = "Verified Authentic"
    /\ statusMessage.id # certIdInput
    /\ lastVerify.id = statusMessage.id

\* two verifications overlapped and were answered in the order requested
C18_WitnessInOrder ==
    /\ revision = "later"
    /\ verifyCalls = 2
    /\ verifies = << >>
    /\ lastVerify.n = 2
    /\ lastVerify.nQr = 0
    /\ certIdInput = NormalizeId(verifyArg)
    /\ statusMessage = TI("Verified Authentic", certIdInput)

---------------------------------------------------------------------------
(* Claims about tensors.                                                   *)

\* C13: when predictImage has returned or thrown, and when diagnoseModel
\* has returned, as many tensors are live as before the call.
C13_TensorsReleased ==
    [][(lastUpload' # lastUpload \/ diagnoses' # diagnoses)
       => liveTensors' = liveTensors]_vars

\* diagnoseModel has returned once under a loaded model and has left one
\* tensor
C13_Witness ==
    /\ model = "ok"
    /\ diagnoses = 1
    /\ predictCalls = 4
    /\ liveTensors = 1

\* the part of C13 about predictImage alone, which holds: a step in which
\* an analysis ends leaves the number of live tensors as it was
C13_PredictImageReleases ==
    [][lastUpload' # lastUpload => liveTensors' = liveTensors]_vars

============================================================================
